---------------------------- MODULE Spec2Model ----------------------------
(***************************************************************************)
(* A model of music.py: the batch that identifies MP3 files, renames them  *)
(* to "Artist - Title[ - Album].mp3" and rewrites their ID3 tags.          *)
(*                                                                         *)
(* A Python str is a sequence of one-character strings, so that the        *)
(* string operations of the program (regex substitution, strip, splitext,  *)
(* f-string formatting) are computed character by character.  Python's     *)
(* None is the one-element sequence None, whose element is no character.   *)
(***************************************************************************)
EXTENDS Integers, Sequences, FiniteSets, TLC

\* ------------------------------------------------------------------ bounds

\* The largest number of *.mp3 files in the scanned directory.
MaxFiles == 2

\* --------------------------------------------------------------- strings

None == <<"None">>

\* A value is truthy in Python unless it is None or the empty string.
Truthy(v) == v # None /\ v # <<>>

\* The characters \s matches and str.strip() strips, among those modelled.
IsSpace(c) == c \in {" ", "\t"}

\* INVALID_WIN_RE: one of < > : " / \ | ? *
INVALID_WIN_RE(c) == c \in {"<", ">", ":", "\"", "/", "\\", "|", "?", "*"}

RECURSIVE LStripSet(_, _)
LStripSet(s, cs) ==
    IF s # <<>> /\ Head(s) \in cs THEN LStripSet(Tail(s), cs) ELSE s

\* Mutant of RStripSet: only one trailing character is removed.
RStripOne(s, cs) ==
    IF s # <<>> /\ s[Len(s)] \in cs THEN SubSeq(s, 1, Len(s) - 1) ELSE s

RECURSIVE RStripSet(_, _)
RStripSet(s, cs) ==
    IF s # <<>> /\ s[Len(s)] \in cs
    THEN RStripSet(SubSeq(s, 1, Len(s) - 1), cs)
    ELSE s

\* str.strip(): leading and trailing whitespace removed.
Strip(s) == RStripSet(LStripSet(s, {" ", "\t"}), {" ", "\t"})

\* MULTISPACE_RE.sub(" ", s): every maximal run of whitespace becomes " ".
RECURSIVE MULTISPACE_SUB(_)
MULTISPACE_SUB(s) ==
    IF s = <<>> THEN <<>>
    ELSE IF IsSpace(Head(s))
         THEN <<" ">> \o MULTISPACE_SUB(LStripSet(Tail(s), {" ", "\t"}))
         ELSE <<Head(s)>> \o MULTISPACE_SUB(Tail(s))

\* INVALID_WIN_RE.sub(" ", s): every reserved character becomes " ".
INVALID_WIN_SUB(s) ==
    [k \in 1..Len(s) |-> IF INVALID_WIN_RE(s[k]) THEN " " ELSE s[k]]

\* re.sub(r"\s*-\s*", " - ", s): scanning left to right, a hyphen with the
\* whitespace before it (not yet consumed) and after it becomes " - ".
\* pending is the whitespace run read since the last non-space character.
RECURSIVE HyphenSub(_, _)
HyphenSub(s, pending) ==
    IF s = <<>> THEN pending
    ELSE IF Head(s) = "-"
         THEN <<" ", "-", " ">> \o HyphenSub(LStripSet(Tail(s), {" ", "\t"}), <<>>)
         ELSE IF IsSpace(Head(s))
              THEN HyphenSub(Tail(s), pending \o <<Head(s)>>)
              ELSE pending \o <<Head(s)>> \o HyphenSub(Tail(s), <<>>)

HYPHEN_SUB(s) == HyphenSub(s, <<>>)

Untitled == <<"u", "n", "t", "i", "t", "l", "e", "d">>

\* Mutant of sanitize_filename: no "untitled" fallback.
sanitize_filename_no_fallback(name) ==
    LET n1 == INVALID_WIN_SUB(name)
        n2 == RStripSet(Strip(MULTISPACE_SUB(n1)), {" ", "."})
        n3 == HYPHEN_SUB(n2)
    IN  RStripSet(Strip(MULTISPACE_SUB(n3)), {" ", "."})

sanitize_filename(name) ==
    LET n1 == INVALID_WIN_SUB(name)
        n2 == RStripSet(Strip(MULTISPACE_SUB(n1)), {" ", "."})
        n3 == HYPHEN_SUB(n2)
        n4 == RStripSet(Strip(MULTISPACE_SUB(n3)), {" ", "."})
    IN  IF n4 # <<>> THEN n4 ELSE Untitled

DotMp3 == <<".", "m", "p", "3">>
Sep == <<" ", "-", " ">>

make_target_filename(artist, title, album) ==
    IF Truthy(album)
    THEN sanitize_filename(artist \o Sep \o title \o Sep \o album \o DotMp3)
    ELSE sanitize_filename(artist \o Sep \o title \o DotMp3)

\* The decimal digits of a natural number, as str(i) and f"{i}" give them.
DigitChar(d) ==
    CASE d = 0 -> "0" [] d = 1 -> "1" [] d = 2 -> "2" [] d = 3 -> "3"
      [] d = 4 -> "4" [] d = 5 -> "5" [] d = 6 -> "6" [] d = 7 -> "7"
      [] d = 8 -> "8" [] d = 9 -> "9"

RECURSIVE Decimal(_)
Decimal(n) ==
    IF n < 10 THEN <<DigitChar(n)>>
    ELSE Decimal(n \div 10) \o <<DigitChar(n % 10)>>

\* os.path.splitext: the extension starts at the last dot, unless that dot
\* is one of the leading dots of the name.
RECURSIVE LastDot(_, _)
LastDot(s, k) ==
    IF k = 0 THEN 0 ELSE IF s[k] = "." THEN k ELSE LastDot(s, k - 1)

splitext(name) ==
    LET d == LastDot(name, Len(name))
        lead == Len(name) - Len(LStripSet(name, {"."}))
    IN  IF d > lead
        THEN [stem |-> SubSeq(name, 1, d - 1), ext |-> SubSeq(name, d, Len(name))]
        ELSE [stem |-> name, ext |-> <<>>]

\* Mutant of Candidate: the suffix is put after the extension.
CandidateAfterExtension(target_name, n) ==
    target_name \o <<" ", "(">> \o Decimal(n) \o <<")">>

\* f"{stem} ({i}){ext}" of safe_rename's probe loop.
Candidate(target_name, n) ==
    LET p == splitext(target_name)
    IN  p.stem \o <<" ", "(">> \o Decimal(n) \o <<")">> \o p.ext


\* ------------------------------------------------------------ data model

TrackInfo(artist, title, album, cover_url) ==
    [artist |-> artist, title |-> title, album |-> album, cover_url |-> cover_url]

\* What shazam_identify_file returns for "not identified" (Python's None).
NoTrack == TrackInfo(None, None, None, None)

FileResult(src_name, dest_name) ==
    [src_name |-> src_name, dest_name |-> dest_name, identified |-> FALSE,
     renamed |-> FALSE, tags_ok |-> FALSE, art_ok |-> FALSE,
     skipped |-> FALSE, error |-> None]

\* The exceptions the collaborators raise, each as its message str(e).
OSErrorRename == <<"OSError: rename">>
MutagenErrorOpen == <<"MutagenError: open">>
MutagenErrorSave == <<"MutagenError: save">>
OSErrorStdout == <<"OSError: stdout">>

\* ------------------------------------------------------ payload extractor

LowerChar(c) ==
    CASE c = "A" -> "a" [] c = "L" -> "l" [] c = "B" -> "b"
      [] c = "U" -> "u" [] c = "M" -> "m" [] OTHER -> c

\* str.lower()
Lower(s) == [k \in 1..Len(s) |-> LowerChar(s[k])]

AlbumKey == <<"a", "l", "b", "u", "m">>

\* Mutant of ScanMetadata: the loop stops at the first album entry.
RECURSIVE ScanMetadataFirstMatch(_, _)
ScanMetadataFirstMatch(meta, album) ==
    IF meta = <<>> THEN album
    ELSE LET md == Head(meta)
             t == IF Truthy(md.title) THEN md.title ELSE <<>>
         IN  IF Lower(Strip(t)) = AlbumKey /\ Truthy(md.text)
             THEN md.text
             ELSE ScanMetadataFirstMatch(Tail(meta), album)

\* The inner loop over one section's metadata: every entry whose title is
\* "album" (stripped, lower-cased) and whose text is truthy overwrites album.
RECURSIVE ScanMetadata(_, _)
ScanMetadata(meta, album) ==
    IF meta = <<>> THEN album
    ELSE LET md == Head(meta)
             t == IF Truthy(md.title) THEN md.title ELSE <<>>
             next == IF Lower(Strip(t)) = AlbumKey /\ Truthy(md.text)
                     THEN md.text ELSE album
         IN  ScanMetadata(Tail(meta), next)

\* The outer loop over track["sections"]; a section without metadata is skipped.
RECURSIVE ScanSections(_, _)
ScanSections(sections, album) ==
    IF sections = <<>> THEN album
    ELSE ScanSections(Tail(sections), ScanMetadata(Head(sections).metadata, album))

\* images.get("coverarthq") or images.get("coverart") or images.get("background") or None
CoverOf(images) ==
    IF Truthy(images.coverarthq) THEN images.coverarthq
    ELSE IF Truthy(images.coverart) THEN images.coverart
    ELSE IF Truthy(images.background) THEN images.background
    ELSE None

\* payload.raises: some access of the traversal raises (a value of the wrong
\* type); the function's except clause turns that into None.
extract_trackinfo_from_shazam(payload) ==
    IF payload.raises THEN NoTrack
    ELSE LET track == payload.track
             title == track.title
             artist == track.subtitle
         IN  IF ~Truthy(title) \/ ~Truthy(artist) THEN NoTrack
             ELSE LET album == ScanSections(track.sections, None)
                      cover == CoverOf(track.images)
                  IN  TrackInfo(Strip(MULTISPACE_SUB(artist)),
                                Strip(MULTISPACE_SUB(title)),
                                IF Truthy(album) THEN Strip(MULTISPACE_SUB(album)) ELSE album,
                                cover)

\* A recognition outcome is a timeout, another exception, or a payload;
\* payload.empty is a falsy payload ({} or None).
shazam_identify_file(outcome) ==
    IF outcome.kind = "payload"
    THEN IF outcome.payload.empty THEN NoTrack
         ELSE extract_trackinfo_from_shazam(outcome.payload)
    ELSE NoTrack

\* ------------------------------------------------- recognition responses

NoImages == [coverarthq |-> None, coverart |-> None, background |-> None]

Track(title, subtitle, sections, images) ==
    [title |-> title, subtitle |-> subtitle, sections |-> sections, images |-> images]

Payload(track) == [empty |-> FALSE, raises |-> FALSE, track |-> track]

CoverUrl == <<"u">>

\* title "T" by "A", no album, with a cover: "A - T.mp3".
PayloadCover ==
    Payload(Track(<<"T">>, <<"A">>, <<>>, [NoImages EXCEPT !.coverart = CoverUrl]))

\* title " T" by "A" on album "L", no cover: "A - T - L.mp3".
PayloadAlbum ==
    Payload(Track(<<" ", "T">>, <<"A">>,
                  << [metadata |-> << [title |-> <<"A", "l", "b", "u", "m">>,
                                       text |-> <<"L">>] >>] >>,
                  NoImages))

\* no track.title: unusable.
PayloadNoTitle == Payload(Track(None, <<"A">>, <<>>, NoImages))

PayloadEmpty == [PayloadNoTitle EXCEPT !.empty = TRUE]

PayloadBadShape == [PayloadNoTitle EXCEPT !.raises = TRUE]

RecognitionOutcomes ==
    {[kind |-> "timeout", payload |-> PayloadEmpty],
     [kind |-> "error", payload |-> PayloadEmpty]}
    \cup {[kind |-> "payload", payload |-> p] :
            p \in {PayloadCover, PayloadAlbum, PayloadNoTitle, PayloadEmpty,
                   PayloadBadShape}}

\* --------------------------------------------------------------- the disk

\* The directory: a function from the names that exist to the file under
\* that name, a file being its identity (the name it had when the program
\* started) and its ID3 frames.
OldFrame == <<"o">>

OriginalTags == [TIT2 |-> OldFrame, TPE1 |-> OldFrame, TALB |-> OldFrame, APIC |-> OldFrame]

NewFile(name) == [id |-> name, tags |-> OriginalTags]

\* Path.rename(dest): the file leaves its name and takes dest.
Rename(d, from, to) ==
    [n \in (DOMAIN d \ {from}) \cup {to} |-> IF n = to THEN d[from] ELSE d[n]]

\* Mutant of Exists: no name is ever seen as taken.
ExistsNever(d, name) == FALSE

\* Path.exists()
Exists(d, name) == name \in DOMAIN d

NameX == <<"x">> \o DotMp3
NameAT == <<"A", " ", "-", " ", "T">> \o DotMp3
NameAT1 == <<"A", " ", "-", " ", "T", " ", "(", "1", ")">> \o DotMp3

\* The names a file may have when the program starts.
InitialNames == {NameX, NameAT, NameAT1}

\* The tags update_tags leaves when audio.save succeeds: title and artist
\* always, album if truthy, the picture if it was fetched.
WrittenTags(track, art_ok) ==
    [TIT2 |-> track.title, TPE1 |-> track.artist,
     TALB |-> IF Truthy(track.album) THEN track.album ELSE None,
     APIC |-> IF art_ok THEN track.cover_url ELSE None]

\* Mutant of update_tags: the fetch is not guarded, its failure is raised.
update_tags_unguarded_fetch(tags, track, opened, fetched, saved) ==
    IF ~opened THEN [raised |-> MutagenErrorOpen, tags |-> tags,
                     ok |-> FALSE, art_ok |-> FALSE]
    ELSE IF Truthy(track.cover_url) /\ ~fetched
    THEN [raised |-> <<"RequestException">>, tags |-> tags,
          ok |-> FALSE, art_ok |-> FALSE]
    ELSE IF ~saved THEN [raised |-> MutagenErrorSave, tags |-> tags,
                         ok |-> FALSE, art_ok |-> FALSE]
    ELSE [raised |-> None, tags |-> WrittenTags(track, Truthy(track.cover_url)),
          ok |-> TRUE, art_ok |-> Truthy(track.cover_url)]

\* update_tags(file_path, track) on the tags of the file: opened says that
\* MP3(file_path) succeeded, fetched that requests.get and raise_for_status
\* did, saved that audio.save did.  A fetch failure is caught inside.
update_tags(tags, track, opened, fetched, saved) ==
    LET art_ok == Truthy(track.cover_url) /\ fetched
    IN  IF ~opened THEN [raised |-> MutagenErrorOpen, tags |-> tags,
                         ok |-> FALSE, art_ok |-> FALSE]
        ELSE IF ~saved THEN [raised |-> MutagenErrorSave, tags |-> tags,
                             ok |-> FALSE, art_ok |-> FALSE]
        ELSE [raised |-> None, tags |-> WrittenTags(track, art_ok),
              ok |-> TRUE, art_ok |-> art_ok]


\* ----------------------------------------------------------------- state

VARIABLES
    pc,             \* the statement the program is at
    exit_code,      \* the process's exit status, None while it runs
    warned,         \* "No MP3 files found." was printed
    summary,        \* the summary print_summary printed, None if none was
    uncaught,       \* the exception that left process_files_async, None if none
    dry_run,        \* args.dry_run
    verbose,        \* args.verbose
    disk,           \* the scanned directory
    files,          \* the list gather_files returned
    i,              \* the loop index of process_files_async
    result,         \* the FileResult of the file in progress
    path,           \* the current path of the file in progress
    ti,             \* the TrackInfo of the file in progress
    new_name,       \* the target filename of the file in progress
    probe,          \* safe_rename's i
    exc,            \* the exception in flight inside the try block, None if none
    results,        \* the list of FileResults
    processed, errors, unidentified,    \* the three counters
    hist,           \* history: per appended result, what happened to that file
    arg,            \* the argument of a function that is run on its own
    ret,            \* what that function returned, None before it has
    first           \* history: what the previous run of the batch did to each
                    \* file, empty when there was none

vars == <<pc, exit_code, warned, summary, uncaught, dry_run, verbose, disk, files,
          i, result, path, ti, new_name, probe, exc, results, processed, errors,
          unidentified, hist, arg, ret, first>>

args == <<dry_run, verbose>>
aside == <<arg, ret, first>>
outputs == <<exit_code, warned, summary, uncaught>>
locals == <<i, result, path, ti, new_name, probe, exc, results, processed,
            errors, unidentified, hist>>

NoSummary == [results |-> <<>>, processed |-> 0, unidentified |-> 0,
              errors |-> 0, total |-> 0, printed |-> FALSE]

\* The values of process_files_async's variables before it runs and after
\* the process has left it by an exception: they hold nothing.
NoLocals ==
    /\ i' = 0
    /\ result' = FileResult(<<>>, <<>>)
    /\ path' = <<>>
    /\ ti' = NoTrack
    /\ new_name' = <<>>
    /\ probe' = 0
    /\ exc' = None
    /\ results' = <<>>
    /\ processed' = 0
    /\ errors' = 0
    /\ unidentified' = 0
    /\ hist' = <<>>

\* A print or print_progress call of process_files_async writes to stdout,
\* which may raise (a closed pipe, a character the stream cannot encode); a
\* call that is not made cannot.  Inside the try block the exception goes to
\* the except clause, elsewhere it leaves the function.  The writes of main
\* itself, before and after the batch, are taken to succeed.
Report(called) == IF called THEN {"ok", "raise"} ELSE {"ok"}

\* The orders in which glob may list the names of the directory.
Orderings(S) ==
    {f \in [1..Cardinality(S) -> S] : \A a, b \in 1..Cardinality(S) : f[a] = f[b] => a = b}

Directories ==
    {[n \in S |-> NewFile(n)] : S \in {T \in SUBSET InitialNames : Cardinality(T) <= MaxFiles}}

Init ==
    /\ pc = "main"
    /\ exit_code = None
    /\ warned = FALSE
    /\ summary = NoSummary
    /\ uncaught = None
    /\ dry_run \in BOOLEAN
    /\ verbose \in BOOLEAN
    /\ disk \in Directories
    /\ files = <<>>
    /\ i = 0
    /\ result = FileResult(<<>>, <<>>)
    /\ path = <<>>
    /\ ti = NoTrack
    /\ new_name = <<>>
    /\ probe = 0
    /\ exc = None
    /\ results = <<>>
    /\ processed = 0
    /\ errors = 0
    /\ unidentified = 0
    /\ hist = <<>>
    /\ arg = None
    /\ ret = None
    /\ first = <<>>

\* An exception leaves process_files_async; main catches only
\* KeyboardInterrupt, so the interpreter prints the traceback and exits 1.
Crash(e) ==
    /\ pc' = "exit"
    /\ exit_code' = 1
    /\ uncaught' = e
    /\ NoLocals
    /\ UNCHANGED <<warned, summary, args, aside, disk, files>>

\* An exception raised inside the try block goes to the except clause.
Raise(e) ==
    /\ exc' = e
    /\ pc' = "except"

\* Mutant of Main: an empty listing is not short-circuited.
MainWithoutShortCircuit ==
    /\ pc = "main"
    /\ \E root_ok \in BOOLEAN, listing \in Orderings(DOMAIN disk) :
         IF ~root_ok
         THEN /\ pc' = "exit"
              /\ exit_code' = 1
              /\ UNCHANGED <<warned, files>>
         ELSE /\ files' = listing
              /\ pc' = "loop"
              /\ UNCHANGED <<warned, exit_code>>
    /\ UNCHANGED <<summary, uncaught, args, aside, disk, locals>>

\* main up to the call of process_files_async.
Main ==
    /\ pc = "main"
    /\ \E root_ok \in BOOLEAN, listing \in Orderings(DOMAIN disk) :
         IF ~root_ok
         THEN /\ pc' = "exit"
              /\ exit_code' = 1
              /\ UNCHANGED <<warned, files>>
         ELSE IF listing = <<>>
         THEN /\ warned' = TRUE
              /\ pc' = "exit"
              /\ exit_code' = 0
              /\ UNCHANGED files
         ELSE /\ files' = listing
              /\ pc' = "loop"
              /\ UNCHANGED <<warned, exit_code>>
    /\ UNCHANGED <<summary, uncaught, args, aside, disk, locals>>

\* for i, orig_path in enumerate(files, 1): the next file, if there is one.
LoopNext ==
    /\ pc = "loop"
    /\ i < Len(files)
    /\ \E rep \in Report(~verbose) :
         IF rep = "raise"
         THEN Crash(OSErrorStdout)
         ELSE /\ i' = i + 1
              /\ result' = FileResult(files[i + 1], files[i + 1])
              /\ path' = files[i + 1]
              /\ exc' = None
              /\ pc' = "identify"
              /\ UNCHANGED <<outputs, args, aside, disk, files, ti, new_name, probe,
                             results, processed, errors, unidentified, hist>>

\* ti = await shazam_identify_file(...)
Identify ==
    /\ pc = "identify"
    /\ \E outcome \in RecognitionOutcomes :
         /\ ti' = shazam_identify_file(outcome)
         /\ pc' = IF ti' = NoTrack THEN "skip" ELSE "identified"
    /\ UNCHANGED <<outputs, args, aside, disk, files, i, result, path, new_name, probe,
                   exc, results, processed, errors, unidentified, hist>>

\* Mutant of Skip: the continue is missing, the loop body's last append
\* runs too.
SkipWithoutContinue ==
    /\ pc = "skip"
    /\ result' = [result EXCEPT !.skipped = TRUE]
    /\ unidentified' = unidentified + 1
    /\ \E rep \in Report(TRUE) :
         IF rep = "raise"
         THEN /\ Raise(OSErrorStdout)
              /\ UNCHANGED <<results, hist>>
         ELSE /\ results' = Append(results, result')
              /\ hist' = Append(hist, [ti |-> ti, exc |-> exc])
              /\ pc' = "append"
              /\ UNCHANGED exc
    /\ UNCHANGED <<outputs, args, aside, disk, files, i, path, ti, new_name, probe,
                   processed, errors>>

\* if not ti: ... results.append(result); continue
Skip ==
    /\ pc = "skip"
    /\ result' = [result EXCEPT !.skipped = TRUE]
    /\ unidentified' = unidentified + 1
    /\ \E rep \in Report(TRUE) :
         IF rep = "raise"
         THEN /\ Raise(OSErrorStdout)
              /\ UNCHANGED <<results, hist>>
         ELSE /\ results' = Append(results, result')
              /\ hist' = Append(hist, [ti |-> ti, exc |-> exc])
              /\ pc' = "loop"
              /\ UNCHANGED exc
    /\ UNCHANGED <<outputs, args, aside, disk, files, i, path, ti, new_name, probe,
                   processed, errors>>

\* result.identified = True ... new_name = make_target_filename(...)
Identified ==
    /\ pc = "identified"
    /\ result' = [result EXCEPT !.identified = TRUE]
    /\ \E rep \in Report(TRUE) :
         IF rep = "raise"
         THEN /\ Raise(OSErrorStdout)
              /\ UNCHANGED new_name
         ELSE /\ new_name' = make_target_filename(ti.artist, ti.title, ti.album)
              /\ pc' = "rename"
              /\ UNCHANGED exc
    /\ UNCHANGED <<outputs, args, aside, disk, files, i, path, ti, probe, results,
                   processed, errors, unidentified, hist>>

\* Mutant of ShouldRename: the preview flag is not consulted.
ShouldRenameIgnoringDryRun(target, current, dry) == target # current

\* if new_name != path.name and not args.dry_run
ShouldRename(target, current, dry) == target # current /\ ~dry

RenameStage ==
    /\ pc = "rename"
    /\ pc' = IF ShouldRename(new_name, path, dry_run) THEN "safe_rename" ELSE "tagging"
    /\ UNCHANGED <<outputs, args, aside, disk, files, locals>>

\* src.rename(dest); return dest: the operating system may refuse.
RenameTo(dest) ==
    \E renamed \in BOOLEAN :
        IF renamed
        THEN /\ disk' = Rename(disk, path, dest)
             /\ path' = dest
             /\ pc' = "renamed"
             /\ UNCHANGED exc
        ELSE /\ Raise(OSErrorRename)
             /\ UNCHANGED <<disk, path>>

\* safe_rename(path, new_name) up to its loop.
SafeRenameStart ==
    /\ pc = "safe_rename"
    /\ IF new_name = path
       THEN /\ pc' = "renamed"
            /\ UNCHANGED <<disk, path, exc, probe>>
       ELSE IF ~Exists(disk, new_name)
       THEN /\ RenameTo(new_name)
            /\ UNCHANGED probe
       ELSE /\ probe' = 1
            /\ pc' = "probe"
            /\ UNCHANGED <<disk, path, exc>>
    /\ UNCHANGED <<outputs, args, aside, files, i, result, ti, new_name, results,
                   processed, errors, unidentified, hist>>

\* Mutant of SafeRenameProbe: i += 1 is left out.
SafeRenameProbeWithoutIncrement ==
    /\ pc = "probe"
    /\ IF ~Exists(disk, Candidate(new_name, probe))
       THEN /\ RenameTo(Candidate(new_name, probe))
            /\ UNCHANGED probe
       ELSE UNCHANGED <<probe, pc, disk, path, exc>>
    /\ UNCHANGED <<outputs, args, aside, files, i, result, ti, new_name, results,
                   processed, errors, unidentified, hist>>

\* One turn of safe_rename's while True loop.
SafeRenameProbe ==
    /\ pc = "probe"
    /\ IF ~Exists(disk, Candidate(new_name, probe))
       THEN /\ RenameTo(Candidate(new_name, probe))
            /\ UNCHANGED probe
       ELSE /\ probe' = probe + 1
            /\ UNCHANGED <<pc, disk, path, exc>>
    /\ UNCHANGED <<outputs, args, aside, files, i, result, ti, new_name, results,
                   processed, errors, unidentified, hist>>

\* Mutant of Renamed: result.dest_name is not updated.
RenamedWithoutDestName ==
    /\ pc = "renamed"
    /\ result' = [result EXCEPT !.renamed = TRUE]
    /\ \E rep \in Report(verbose) :
         IF rep = "raise"
         THEN Raise(OSErrorStdout)
         ELSE /\ pc' = "tagging"
              /\ UNCHANGED exc
    /\ UNCHANGED <<outputs, args, aside, disk, files, i, path, ti, new_name, probe,
                   results, processed, errors, unidentified, hist>>

\* path = safe_rename(...) has returned: result.dest_name, result.renamed.
Renamed ==
    /\ pc = "renamed"
    /\ result' = [result EXCEPT !.dest_name = path, !.renamed = TRUE]
    /\ \E rep \in Report(verbose) :
         IF rep = "raise"
         THEN Raise(OSErrorStdout)
         ELSE /\ pc' = "tagging"
              /\ UNCHANGED exc
    /\ UNCHANGED <<outputs, args, aside, disk, files, i, path, ti, new_name, probe,
                   results, processed, errors, unidentified, hist>>

\* status = "TAGS/ART..." and the choice between update_tags and the
\* preview's result.tags_ok = True, result.art_ok = bool(ti.cover_url).
Tagging ==
    /\ pc = "tagging"
    /\ \E rep \in Report(~verbose) :
         IF rep = "raise"
         THEN /\ Raise(OSErrorStdout)
              /\ UNCHANGED result
         ELSE IF ~dry_run
         THEN /\ pc' = "update_tags"
              /\ UNCHANGED <<result, exc>>
         ELSE /\ result' = [result EXCEPT !.tags_ok = TRUE,
                                          !.art_ok = Truthy(ti.cover_url)]
              /\ pc' = "done"
              /\ UNCHANGED exc
    /\ UNCHANGED <<outputs, args, aside, disk, files, i, path, ti, new_name, probe,
                   results, processed, errors, unidentified, hist>>

\* ok, art_ok = update_tags(path, ti); result.tags_ok = ok; result.art_ok = art_ok
UpdateTags ==
    /\ pc = "update_tags"
    /\ \E opened, fetched, saved \in BOOLEAN :
         LET r == update_tags(disk[path].tags, ti, opened, fetched, saved)
         IN  IF r.raised # None
             THEN /\ Raise(r.raised)
                  /\ UNCHANGED <<disk, result>>
             ELSE /\ disk' = [disk EXCEPT ![path].tags = r.tags]
                  /\ result' = [result EXCEPT !.tags_ok = r.ok, !.art_ok = r.art_ok]
                  /\ pc' = "done"
                  /\ UNCHANGED exc
    /\ UNCHANGED <<outputs, args, aside, files, i, path, ti, new_name, probe, results,
                   processed, errors, unidentified, hist>>

\* processed += 1; status = "DONE"
Done ==
    /\ pc = "done"
    /\ processed' = processed + 1
    /\ \E rep \in Report(~verbose) :
         IF rep = "raise"
         THEN Raise(OSErrorStdout)
         ELSE /\ pc' = "append"
              /\ UNCHANGED exc
    /\ UNCHANGED <<outputs, args, aside, disk, files, i, result, path, ti, new_name,
                   probe, results, errors, unidentified, hist>>

\* Mutant of Except: there is no handler, the exception leaves the loop.
ExceptPropagates ==
    /\ pc = "except"
    /\ Crash(exc)

\* except Exception as e: errors += 1; result.error = str(e)
Except ==
    /\ pc = "except"
    /\ \E rep \in Report(TRUE) :
         IF rep = "raise"
         THEN Crash(OSErrorStdout)
         ELSE /\ errors' = errors + 1
              /\ result' = [result EXCEPT !.error = exc]
              /\ pc' = "append"
              /\ UNCHANGED <<outputs, args, aside, disk, files, i, path, ti, new_name,
                             probe, exc, results, processed, unidentified, hist>>

\* results.append(result) at the end of the loop body
AppendResult ==
    /\ pc = "append"
    /\ \E rep \in Report(verbose) :
         IF rep = "raise"
         THEN Crash(OSErrorStdout)
         ELSE /\ results' = Append(results, result)
              /\ hist' = Append(hist, [ti |-> ti, exc |-> exc])
              /\ pc' = "loop"
              /\ UNCHANGED <<outputs, args, aside, disk, files, i, result, path, ti,
                             new_name, probe, exc, processed, errors, unidentified>>

\* The loop is over: print() ends the progress line, the summary is
\* returned and main prints it.
Return ==
    /\ pc = "loop"
    /\ i = Len(files)
    /\ \E rep \in Report(~verbose) :
         IF rep = "raise"
         THEN Crash(OSErrorStdout)
         ELSE /\ summary' = [results |-> results, processed |-> processed,
                             unidentified |-> unidentified, errors |-> errors,
                             total |-> Len(files), printed |-> TRUE]
              /\ pc' = "exit"
              /\ exit_code' = 0
              /\ NoLocals
              /\ UNCHANGED <<warned, uncaught, args, aside, disk, files>>

InBatch == pc \notin {"main", "exit"}

\* Mutant of Interrupt: the handler does not exit, and main goes on to print
\* a summary.
InterruptThenSummary ==
    /\ InBatch
    /\ pc' = "exit"
    /\ exit_code' = 0
    /\ summary' = [results |-> results, processed |-> processed,
                   unidentified |-> unidentified, errors |-> errors,
                   total |-> Len(files), printed |-> TRUE]
    /\ NoLocals
    /\ UNCHANGED <<warned, uncaught, args, aside, disk, files>>

\* KeyboardInterrupt during asyncio.run: "Interrupted by user.", sys.exit(130).
Interrupt ==
    /\ InBatch
    /\ pc' = "exit"
    /\ exit_code' = 130
    /\ NoLocals
    /\ UNCHANGED <<warned, summary, uncaught, args, aside, disk, files>>

Next ==
    \/ Main
    \/ LoopNext
    \/ Identify
    \/ Skip
    \/ Identified
    \/ RenameStage
    \/ SafeRenameStart
    \/ SafeRenameProbe
    \/ Renamed
    \/ Tagging
    \/ UpdateTags
    \/ Done
    \/ Except
    \/ AppendResult
    \/ Return
    \/ Interrupt

Spec == Init /\ [][Next]_vars


\* ------------------------------------------------- safe_rename on its own

\* The largest suffix " (k)" a name of the directory carries at the start.
MaxSuffix == 2

NameA == <<"A">> \o DotMp3
NameA1 == <<"A", " ", "(", "1", ")">> \o DotMp3
NameA2 == <<"A", " ", "(", "2", ")">> \o DotMp3

SuffixedA(k) == <<"A", " ", "(">> \o Decimal(k) \o <<")">> \o DotMp3

RenameNames == {NameA, NameX} \cup {SuffixedA(k) : k \in 1..MaxSuffix}

\* safe_rename(src, target_name) called on any file of any directory with
\* any target name.
RenameInit ==
    /\ pc = "safe_rename"
    /\ exit_code = None
    /\ warned = FALSE
    /\ summary = NoSummary
    /\ uncaught = None
    /\ dry_run = FALSE
    /\ verbose = FALSE
    /\ disk \in {[n \in S |-> NewFile(n)] : S \in SUBSET RenameNames \ {{}}}
    /\ files = <<>>
    /\ i = 0
    /\ result = FileResult(<<>>, <<>>)
    /\ path \in DOMAIN disk
    /\ ti = NoTrack
    /\ new_name \in RenameNames
    /\ probe = 0
    /\ exc = None
    /\ results = <<>>
    /\ processed = 0
    /\ errors = 0
    /\ unidentified = 0
    /\ hist = <<>>
    /\ arg = None
    /\ ret = None
    /\ first = <<>>

RenameNext ==
    \/ SafeRenameStart
    \/ SafeRenameProbe

RenameSpec == RenameInit /\ [][RenameNext]_vars

\* safe_rename is straight-line synchronous code: the interpreter goes on to
\* its next statement as long as there is one.
RenameFairSpec == RenameSpec /\ WF_vars(RenameNext)


\* ---------------------------------------------------------------- claims

TagErrors == {MutagenErrorOpen, MutagenErrorSave}

TargetOf(track) == make_target_filename(track.artist, track.title, track.album)

\* C1: every appended FileResult satisfies exactly one of: skipped; error is
\* not None; identified and tags_ok.
C1_ExactlyOneClassification ==
    \A k \in DOMAIN results :
        LET r == results[k]
            a == r.skipped
            b == r.error # None
            c == r.identified /\ r.tags_ok
        IN  \/ a /\ ~b /\ ~c
            \/ ~a /\ b /\ ~c
            \/ ~a /\ ~b /\ c

\* C2: an exception of update_tags never leaves the loop (only a failing
\* write to stdout outside the try block does); the file it struck gets its
\* result like every other file, the loop goes on with the next file, and
\* each result is decided by what happened to its own file: its error is
\* the exception raised while that file was processed, None if none was.
C2_TagFailureIsolated ==
    /\ uncaught \in {None, OSErrorStdout}
    /\ pc = "loop" => Len(results) = i
    /\ pc = "except" /\ exc \in TagErrors => disk[path].tags = OriginalTags
    /\ \A k \in DOMAIN results :
         /\ results[k].src_name = files[k]
         /\ results[k].error = hist[k].exc
         /\ results[k].skipped = (hist[k].ti = NoTrack)
         /\ results[k].identified = (hist[k].ti # NoTrack)
         /\ results[k].tags_ok => hist[k].exc \in {None, OSErrorStdout}

\* A tag write failed on one file and the next file went through to DONE.
C2_Witness ==
    \E k \in DOMAIN results :
        /\ k < Len(results)
        /\ results[k].error \in TagErrors
        /\ results[k + 1].error = None
        /\ results[k + 1].tags_ok

MutationPcs == {"safe_rename", "probe", "renamed", "update_tags"}

\* C3: with dry_run the program never enters safe_rename or update_tags,
\* and every file keeps the name and the tags it started with.
C3_DryRunNeverMutates ==
    dry_run =>
        /\ pc \notin MutationPcs
        /\ \A n \in DOMAIN disk : disk[n] = NewFile(n)
        /\ files # <<>> => DOMAIN disk = {files[k] : k \in DOMAIN files}

\* A preview batch ended in which an identified file had another target name.
C3_Witness ==
    /\ dry_run
    /\ pc = "loop"
    /\ i = Len(files)
    /\ \E k \in DOMAIN results :
         /\ results[k].identified
         /\ results[k].error = None
         /\ TargetOf(hist[k].ti) # files[k]

\* C4: with dry_run, an identified file that went through the pipeline has
\* renamed true exactly when its target filename differs from its name,
\* tags_ok true, and art_ok true exactly when its TrackInfo has a cover URL.
\* (Stated for the files that ended without an error, which the claim covers.)
C4_DryRunReportsWouldBeRename ==
    dry_run =>
        \A k \in DOMAIN results :
            results[k].identified /\ results[k].error = None =>
                /\ results[k].renamed = (TargetOf(hist[k].ti) # files[k])
                /\ results[k].tags_ok
                /\ results[k].art_ok = Truthy(hist[k].ti.cover_url)

\* C5: a file that was not identified ends with skipped = True and every
\* other field as at the start (error None), it is still under its name
\* with its tags, and when no file of the batch so far was identified only
\* the unidentified counter has moved.
C5_MissIsSkippedNeverError ==
    /\ \A k \in DOMAIN results :
         hist[k].ti = NoTrack =>
             /\ results[k] = [FileResult(files[k], files[k]) EXCEPT !.skipped = TRUE]
             /\ files[k] \in DOMAIN disk
             /\ disk[files[k]] = NewFile(files[k])
    /\ (pc = "loop" /\ \A k \in DOMAIN results : hist[k].ti = NoTrack) =>
         /\ unidentified = Len(results)
         /\ errors = 0
         /\ processed = 0

\* C6: when process_files_async returns, the summary holds one FileResult
\* per file, in the order of the listing, and total is their number; while
\* the batch runs, the results are those of the files done so far, in order.
C6_OneResultPerFileInOrder ==
    /\ summary.printed =>
         /\ Len(summary.results) = summary.total
         /\ summary.total = Len(files)
         /\ \A k \in DOMAIN files : summary.results[k].src_name = files[k]
    /\ Len(results) <= i
    /\ \A k \in DOMAIN results : results[k].src_name = files[k]

\* A batch returned with a skipped file and a file that ended in error.
C6_Witness ==
    /\ summary.printed
    /\ \E a, b \in DOMAIN summary.results :
         /\ summary.results[a].skipped
         /\ summary.results[a].error = None
         /\ summary.results[b].error # None
         /\ ~summary.results[b].skipped

\* The names of the directory before safe_rename moved the file now at path.
NamesBefore == (DOMAIN disk \ {path}) \cup {disk[path].id}

\* C7: safe_rename returns src, nothing renamed, when the target is the
\* current name; else it renames to the target when no file has that name;
\* else to "<stem> (k)<ext>" for the least k >= 1 whose name no file has.
\* With "A.mp3" and "A (1).mp3" there, another file renamed to "A.mp3"
\* becomes "A (2).mp3".  No other file moves, and a refused rename moves none.
C7_SafeRenamePicksFirstFreeName ==
    /\ \A n \in DOMAIN disk \ {path} : disk[n].id = n
    /\ pc # "renamed" => disk[path].id = path
    /\ pc = "renamed" =>
         LET src == disk[path].id
         IN  /\ new_name = src => path = src
             /\ new_name # src /\ new_name \notin NamesBefore => path = new_name
             /\ new_name # src /\ new_name \in NamesBefore =>
                  \E k \in 1..Cardinality(NamesBefore) :
                      /\ path = Candidate(new_name, k)
                      /\ path \notin NamesBefore
                      /\ \A j \in 1..(k - 1) : Candidate(new_name, j) \in NamesBefore
             /\ ( /\ new_name = NameA
                  /\ src \notin {NameA, NameA1, NameA2}
                  /\ {NameA, NameA1} \subseteq NamesBefore
                  /\ NameA2 \notin NamesBefore ) => path = NameA2

\* "x.mp3" was renamed to "A.mp3" beside "A.mp3" and "A (1).mp3".
C7_Witness ==
    /\ pc = "renamed"
    /\ new_name = NameA
    /\ disk[path].id = NameX
    /\ {NameA, NameA1} \subseteq DOMAIN disk
    /\ path = NameA2
    /\ probe = 2

\* C8 as claimed: when no file is found the program prints the warning and
\* ends with exit status 1, with no batch and no summary.
C8_NoFilesExitsOne ==
    warned =>
        /\ pc = "exit"
        /\ exit_code = 1
        /\ ~summary.printed
        /\ files = <<>>

\* C8 as the code has it: when no file is found the program prints the
\* warning and main returns, so the exit status is 0; no batch runs on an
\* empty listing and no summary is built or printed.
C8_NoFilesExitsZero ==
    /\ warned =>
         /\ pc = "exit"
         /\ exit_code = 0
         /\ ~summary.printed
         /\ files = <<>>
         /\ DOMAIN disk = {}
    /\ pc = "exit" /\ DOMAIN disk = {} =>
         \/ warned /\ exit_code = 0
         \/ ~warned /\ exit_code = 1 /\ uncaught = None
    /\ InBatch => files # <<>>
    /\ summary.printed => summary.total > 0

\* The program ended on an empty directory after the warning.
C8_Witness ==
    /\ pc = "exit"
    /\ warned
    /\ DOMAIN disk = {}

\* What C9 says of a FileResult r: renamed, then failed in update_tags.
RenamedThenTagFailure(r) == r.renamed /\ r.error \in TagErrors

KeptRename(r) ==
    /\ r.identified
    /\ ~r.tags_ok
    /\ ~r.art_ok
    /\ r.dest_name # r.src_name
    /\ r.dest_name \in DOMAIN disk
    /\ disk[r.dest_name].id = r.src_name
    /\ disk[r.dest_name].tags = OriginalTags

\* C9: a file renamed and then failing in update_tags stays under its new
\* name: its result has identified, renamed, dest_name the new name under
\* which the file is on disk, tags_ok and art_ok false, error set; it counts
\* in errors and not in processed.
C9_RenameKeptOnTagFailure ==
    /\ \A k \in DOMAIN results :
         RenamedThenTagFailure(results[k]) => KeptRename(results[k])
    /\ pc = "append" /\ RenamedThenTagFailure(result) => KeptRename(result)
    /\ pc = "loop" =>
         /\ errors = Cardinality({k \in DOMAIN results : results[k].error # None})
         /\ processed = Cardinality({k \in DOMAIN results : results[k].tags_ok})

\* A renamed file whose tag write failed has its result in the list.
C9_Witness ==
    \E k \in DOMAIN results : RenamedThenTagFailure(results[k])

\* What update_tags returns when only the fetch of the cover fails.
OnFetchFailure == update_tags(disk[path].tags, ti, TRUE, FALSE, TRUE)

C10_State ==
    /\ pc = "update_tags" =>
         /\ OnFetchFailure.raised = None
         /\ OnFetchFailure.ok
         /\ ~OnFetchFailure.art_ok
         /\ OnFetchFailure.tags.TIT2 = ti.title
         /\ OnFetchFailure.tags.TPE1 = ti.artist
         /\ OnFetchFailure.tags.APIC = None
    /\ pc = "done" =>
         /\ result.tags_ok
         /\ result.error = None
         /\ exc = None
    /\ pc = "done" /\ ~dry_run =>
         /\ disk[path].tags.TIT2 = ti.title
         /\ disk[path].tags.TPE1 = ti.artist
         /\ result.art_ok = (disk[path].tags.APIC # None)

C10_Step ==
    /\ pc = "update_tags" /\ pc' = "except" => exc' \in TagErrors
    /\ pc = "done" /\ pc' \in {"append", "except"} =>
         /\ processed' = processed + 1
         /\ errors' = errors

\* C10: a failed fetch of the cover makes update_tags save the text tags and
\* return (True, False); update_tags raises only when opening or saving the
\* tags fails; after it returned the file is at DONE with error None, and
\* the DONE step increments processed and not errors.
C10_FetchFailureIsNoError == []C10_State /\ [][C10_Step]_vars

\* A file with a cover URL is at DONE, its text tags saved, without picture.
C10_Witness ==
    /\ pc = "done"
    /\ ~dry_run
    /\ Truthy(ti.cover_url)
    /\ result.tags_ok
    /\ ~result.art_ok
    /\ disk[path].tags.TIT2 = ti.title
    /\ disk[path].tags.APIC = None

\* ------------------------------------------------------ the batch run twice

\* The batch, no preview, has returned as in Return with no error for any
\* file and without a failing write, and the program is started again, once,
\* on the directory as the run left it.  first keeps, per file, the name it
\* had at the start, the name the run left it with, its TrackInfo and its
\* error.
RunAgain ==
    /\ pc = "loop"
    /\ i = Len(files)
    /\ files # <<>>
    /\ first = <<>>
    /\ ~dry_run
    /\ errors = 0
    /\ first' = [k \in DOMAIN results |->
                   [id |-> results[k].src_name, name |-> results[k].dest_name,
                    ti |-> hist[k].ti, error |-> results[k].error]]
    /\ pc' = "main"
    /\ files' = <<>>
    /\ NoLocals
    /\ UNCHANGED <<outputs, args, arg, ret, disk>>

RerunNext ==
    \/ Next
    \/ RunAgain

RerunSpec == Init /\ [][RerunNext]_vars


\* -------------------------------------- the filename functions on their own

\* The longest string the filename functions are given.
MaxLen == 4

\* A letter, the two kinds of whitespace, a hyphen, a period and two of the
\* reserved characters, one of them a path separator.
Alphabet == {"a", " ", "\t", "-", ".", "?", "/"}

Strings(n) == UNION {[1..k -> Alphabet] : k \in 0..n}

\* A filename function is about to be called on any string.
SanitizeInit ==
    /\ pc = "call"
    /\ exit_code = None
    /\ warned = FALSE
    /\ summary = NoSummary
    /\ uncaught = None
    /\ dry_run = FALSE
    /\ verbose = FALSE
    /\ disk = <<>>
    /\ files = <<>>
    /\ i = 0
    /\ result = FileResult(<<>>, <<>>)
    /\ path = <<>>
    /\ ti = NoTrack
    /\ new_name = <<>>
    /\ probe = 0
    /\ exc = None
    /\ results = <<>>
    /\ processed = 0
    /\ errors = 0
    /\ unidentified = 0
    /\ hist = <<>>
    /\ arg \in Strings(MaxLen)
    /\ ret = None
    /\ first = <<>>

\* sanitize_filename(arg)
SanitizeFilename ==
    /\ pc = "call"
    /\ ret' = sanitize_filename(arg)
    /\ pc' = "sanitized"
    /\ UNCHANGED <<outputs, args, arg, first, disk, files, locals>>

\* make_target_filename(artist, title, album): arg is cut into an artist and
\* a title at any place, the album is missing or there.
MakeTargetFilename ==
    /\ pc = "call"
    /\ \E k \in 0..Len(arg), album \in {None, <<>>, <<"a">>, <<"/">>} :
         LET artist == SubSeq(arg, 1, k)
             title == SubSeq(arg, k + 1, Len(arg))
         IN  ret' = make_target_filename(artist, title, album)
    /\ pc' = "target"
    /\ UNCHANGED <<outputs, args, arg, first, disk, files, locals>>

SanitizeNext ==
    \/ SanitizeFilename
    \/ MakeTargetFilename

SanitizeSpec == SanitizeInit /\ [][SanitizeNext]_vars


\* ------------------------------------------------ the extractor on its own

\* The largest number of sections of a track and of metadata entries of a
\* section.
MaxSections == 2
MaxEntries == 2

Seqs(S, n) == UNION {[1..k -> S] : k \in 0..n}

\* track.title and track.subtitle: missing, empty, whitespace only, or a name.
TitleValues == {None, <<>>, <<" ">>, <<"T">>}
SubtitleValues == {None, <<>>, <<"\t">>, <<"A">>}

\* Metadata entries: two album entries with different texts (one titled
\* "Album", one "album " in lower case with a trailing space), an album
\* entry without text, and an entry that is no album entry.
MetadataEntries ==
    {[title |-> <<"A", "l", "b", "u", "m">>, text |-> <<"L">>],
     [title |-> <<"a", "l", "b", "u", "m", " ">>, text |-> <<"M">>],
     [title |-> <<"A", "l", "b", "u", "m">>, text |-> None],
     [title |-> <<"x">>, text |-> <<"L">>]}

SectionsValues ==
    Seqs({[metadata |-> m] : m \in Seqs(MetadataEntries, MaxEntries)}, MaxSections)

\* The payloads: any title and subtitle with or without an album section,
\* any sections under a usable title and subtitle, and a payload whose
\* traversal raises.
ExtractPayloads ==
    {Payload(Track(t, s, secs, NoImages)) :
        t \in TitleValues, s \in SubtitleValues,
        secs \in {<<>>, PayloadAlbum.track.sections}}
    \cup {Payload(Track(<<"T">>, <<"A">>, secs, NoImages)) : secs \in SectionsValues}
    \cup {PayloadBadShape}

\* extract_trackinfo_from_shazam is about to be called on any payload.
ExtractInit ==
    /\ pc = "call"
    /\ exit_code = None
    /\ warned = FALSE
    /\ summary = NoSummary
    /\ uncaught = None
    /\ dry_run = FALSE
    /\ verbose = FALSE
    /\ disk = <<>>
    /\ files = <<>>
    /\ i = 0
    /\ result = FileResult(<<>>, <<>>)
    /\ path = <<>>
    /\ ti = NoTrack
    /\ new_name = <<>>
    /\ probe = 0
    /\ exc = None
    /\ results = <<>>
    /\ processed = 0
    /\ errors = 0
    /\ unidentified = 0
    /\ hist = <<>>
    /\ arg \in ExtractPayloads
    /\ ret = None
    /\ first = <<>>

\* extract_trackinfo_from_shazam(arg)
ExtractTrackinfo ==
    /\ pc = "call"
    /\ ret' = extract_trackinfo_from_shazam(arg)
    /\ pc' = "extracted"
    /\ UNCHANGED <<outputs, args, arg, first, disk, files, locals>>

ExtractNext == ExtractTrackinfo

ExtractSpec == ExtractInit /\ [][ExtractNext]_vars


\* ------------------------------------------------------ claims, continued

HasSpace(s) == \E k \in DOMAIN s : IsSpace(s[k])
HasReserved(s) == \E k \in DOMAIN s : INVALID_WIN_RE(s[k])
HasChar(s, c) == \E k \in DOMAIN s : s[k] = c

\* C11: sanitize_filename is idempotent: sanitizing a sanitized name gives
\* that name again, whatever reserved characters, hyphens, periods and
\* whitespace the input held and in whatever order.
C11_SanitizeIdempotent ==
    pc = "sanitized" => sanitize_filename(ret) = ret

\* An input with a reserved character, a hyphen, a period and whitespace
\* that sanitize_filename changed into a name of its own.
C11_Witness ==
    /\ pc = "sanitized"
    /\ HasReserved(arg) /\ HasSpace(arg) /\ HasChar(arg, "-") /\ HasChar(arg, ".")
    /\ ret # arg
    /\ ret # Untitled

\* The characters a Windows filename may not hold, and the path separators
\* among them.
ReservedChars == {"<", ">", ":", "\"", "/", "\\", "|", "?", "*"}
PathSeparators == {"/", "\\"}

\* Every character of s is one that sanitize_filename strips or replaces
\* by a space that it then strips.
AllStripped(s) ==
    \A k \in DOMAIN s : s[k] \in ReservedChars \cup {" ", "\t", "."}

\* C13: sanitize_filename(x) holds no reserved character and is never
\* empty, being "untitled" exactly when nothing else is left of x; so the
\* target filename make_target_filename builds is a non-empty name without
\* a path separator.
C13_SanitizeTotal ==
    /\ pc = "sanitized" =>
         /\ ret # <<>>
         /\ \A k \in DOMAIN ret : ret[k] \notin ReservedChars
         /\ AllStripped(arg) <=> ret = Untitled
    /\ pc = "target" =>
         /\ ret # <<>>
         /\ \A k \in DOMAIN ret : ret[k] \notin PathSeparators

\* A name of reserved characters only, which became "untitled".
C13_Witness ==
    /\ pc = "sanitized"
    /\ arg # <<>>
    /\ \A k \in DOMAIN arg : arg[k] \in ReservedChars
    /\ HasChar(arg, "/")
    /\ ret = Untitled

\* MULTISPACE_RE.sub(" ", s).strip() of a string that is there.
Normalized(s) == IF Truthy(s) THEN Strip(MULTISPACE_SUB(s)) ELSE <<>>

\* C12: every TrackInfo the extractor returns has a non-empty artist and a
\* non-empty title; a payload whose track.title or track.subtitle is
\* missing, empty, or empty once normalized is unusable (the extractor
\* returns None); and the extractor returns for every payload, also for one
\* whose traversal raises.
C12_ExtractedNamesNonEmpty ==
    pc = "extracted" =>
      /\ ret # NoTrack => Truthy(ret.artist) /\ Truthy(ret.title)
      /\ (Normalized(arg.track.title) = <<>> \/ Normalized(arg.track.subtitle) = <<>>)
            => ret = NoTrack
      /\ arg.raises => ret = NoTrack

Largest(S) == CHOOSE x \in S : \A y \in S : y <= x
Smallest(S) == CHOOSE x \in S : \A y \in S : x <= y

\* md's title, stripped and lower-cased, is "album".
IsAlbumEntry(md) ==
    Lower(Strip(IF Truthy(md.title) THEN md.title ELSE <<>>)) = AlbumKey

AlbumEntries(sec) == {e \in DOMAIN sec.metadata : IsAlbumEntry(sec.metadata[e])}
TextedAlbumEntries(sec) == {e \in AlbumEntries(sec) : Truthy(sec.metadata[e].text)}

\* The album by "first entry of a section, last section": the text of the
\* first album entry of the last section that has an album entry.
FirstOfLastSection(sections) ==
    LET with == {s \in DOMAIN sections : AlbumEntries(sections[s]) # {}}
    IN  IF with = {} THEN None
        ELSE LET sec == sections[Largest(with)]
             IN  Normalized(sec.metadata[Smallest(AlbumEntries(sec))].text)

\* The album by "last entry with a text": the text of the last album entry
\* with a text of the last section that has one.
LastTextedEntry(sections) ==
    LET with == {s \in DOMAIN sections : TextedAlbumEntries(sections[s]) # {}}
    IN  IF with = {} THEN None
        ELSE LET sec == sections[Largest(with)]
             IN  Normalized(sec.metadata[Largest(TextedAlbumEntries(sec))].text)

\* C17 as stated: within a section the album candidate is the text of the
\* FIRST metadata entry titled "album" (case-insensitively), later album
\* entries of that section being ignored, and the last section with an
\* album entry wins.  Stated for payloads all of whose album entries have a
\* text.
C17_FirstEntryOfSectionWins ==
    (/\ pc = "extracted"
     /\ ret # NoTrack
     /\ \A s \in DOMAIN arg.track.sections :
          AlbumEntries(arg.track.sections[s]) = TextedAlbumEntries(arg.track.sections[s]))
    => ret.album = FirstOfLastSection(arg.track.sections)

\* C17 amended: the album is the text of the LAST metadata entry titled
\* "album" that has a non-empty text, within a section as across sections;
\* it is None when there is no such entry.
C17_LastTextedEntryWins ==
    (pc = "extracted" /\ ret # NoTrack)
    => ret.album = LastTextedEntry(arg.track.sections)

\* Two sections, the last with two album entries of different texts, and
\* the album is the text of the second of them.
C17_Witness ==
    /\ pc = "extracted"
    /\ ret # NoTrack
    /\ Len(arg.track.sections) = 2
    /\ AlbumEntries(arg.track.sections[1]) # {}
    /\ LET meta == arg.track.sections[2].metadata
       IN  /\ TextedAlbumEntries(arg.track.sections[2]) = {1, 2}
           /\ meta[1].text # meta[2].text
           /\ ret.album = meta[2].text

\* The process has exited with the status of an interrupted run.
Interrupted == pc = "exit" /\ exit_code = 130

C14_State ==
    /\ InBatch => ENABLED Interrupt
    /\ Interrupted =>
         /\ ~summary.printed
         /\ uncaught = None

C14_Step ==
    /\ Interrupt =>
         /\ pc' = "exit"
         /\ exit_code' = 130
         /\ disk' = disk
    /\ ~Interrupted

\* C14: an interrupt can come at any point of the batch and aborts the run
\* at once: the process exits with status 130 without a summary, the
\* renames and tag writes made so far stay as they are, and nothing is
\* done after that (no step leaves a state with exit status 130).
C14_InterruptAborts == []C14_State /\ [][C14_Step]_vars

\* Interrupted after one file was renamed and tagged and before another
\* was touched.
C14_Witness ==
    /\ Interrupted
    /\ \E n \in DOMAIN disk : disk[n].id # n /\ disk[n].tags # OriginalTags
    /\ \E n \in DOMAIN disk : disk[n].id = n /\ disk[n].tags = OriginalTags

\* C16: every file increments exactly one of the three counters, so that
\* after each file the counters add up to the number of results, and the
\* returned summary has processed + unidentified + errors = total, also
\* when a file was renamed and then failed to tag.
C16_CountersAddUpToTotal ==
    /\ pc \in {"loop", "identify"} =>
         processed + unidentified + errors = Len(results)
    /\ summary.printed =>
         summary.processed + summary.unidentified + summary.errors = summary.total

\* The stage of the per-file pipeline a statement belongs to; "END" is the
\* append that closes the loop body, "NONE" is outside the loop body.
StageOf(at) ==
    CASE at = "identify" -> "IDENTIFYING"
      [] at = "skip" -> "SKIPPED"
      [] at = "identified" -> "IDENTIFIED"
      [] at \in {"rename", "safe_rename", "probe", "renamed"} -> "RENAMING"
      [] at \in {"tagging", "update_tags"} -> "TAGGING"
      [] at = "done" -> "DONE"
      [] at = "except" -> "ERROR"
      [] at = "append" -> "END"
      [] OTHER -> "NONE"

\* The stages that may follow a stage: the next one in order, ERROR from
\* any stage before the file's outcome is there, and the end of the loop
\* body after SKIPPED, DONE and ERROR.
StagesAfter(stage) ==
    CASE stage = "IDENTIFYING" -> {"SKIPPED", "IDENTIFIED", "ERROR"}
      [] stage = "SKIPPED" -> {"END"}
      [] stage = "IDENTIFIED" -> {"RENAMING", "ERROR"}
      [] stage = "RENAMING" -> {"TAGGING", "ERROR"}
      [] stage = "TAGGING" -> {"DONE", "ERROR"}
      [] stage = "DONE" -> {"END"}
      [] stage = "ERROR" -> {"END"}
      [] stage = "END" -> {}
      [] OTHER -> {"IDENTIFYING"}

\* The tag write is made to the file in progress, under the name the rename
\* step left it with.
TagWriteOnRenamedPath ==
    pc = "update_tags" =>
      /\ path \in DOMAIN disk
      /\ disk[path].id = files[i]
      /\ path = result.dest_name
      /\ result.renamed <=> path # files[i]

StageFollows ==
    pc' \notin {pc, "exit", "loop"} =>
      \/ StageOf(pc') = StageOf(pc)
      \/ StageOf(pc') \in StagesAfter(StageOf(pc))

\* Names change in the RENAMING stage only, on a file not yet tagged; tags
\* are written in the TAGGING stage only, to the file in progress.
MutationsInTheirStage ==
    /\ pc' = "loop" => pc \in {"main", "skip", "append"}
    /\ DOMAIN disk' # DOMAIN disk =>
         /\ StageOf(pc) = "RENAMING"
         /\ disk[path].tags = OriginalTags
    /\ (disk' # disk /\ DOMAIN disk' = DOMAIN disk) =>
         /\ pc = "update_tags"
         /\ \A n \in DOMAIN disk \ {path} : disk'[n] = disk[n]
         /\ disk'[path].id = disk[path].id

\* C18: within a file the stages come in the order IDENTIFYING, SKIPPED or
\* IDENTIFIED, RENAMING, TAGGING, DONE; ERROR is entered at most once and
\* ends the pipeline; no stage, ERROR included, runs after the file's
\* ERROR, SKIPPED or DONE.  The tag write comes after the rename step and
\* is made to the path that step produced.
C18_StagesInOrder ==
    []TagWriteOnRenamedPath /\ [][StageFollows /\ MutationsInTheirStage]_vars

\* The order of C18 but for ERROR entered from SKIPPED or DONE.
LateError == StageOf(pc) \in {"SKIPPED", "DONE"} /\ StageOf(pc') = "ERROR"

StagesInOrderButForLateError ==
    []TagWriteOnRenamedPath
    /\ [][(LateError \/ StageFollows) /\ MutationsInTheirStage]_vars

\* One file of the directory got another name, one that was free, and
\* nothing else changed.
OneFileMoved ==
    /\ path' \notin DOMAIN disk
    /\ DOMAIN disk' = (DOMAIN disk \ {path}) \cup {path'}
    /\ disk'[path'] = disk[path]
    /\ \A n \in DOMAIN disk \ {path} : disk'[n] = disk[n]

C19_Bound == pc = "probe" => probe <= Cardinality(DOMAIN disk) + 1

C19_Step ==
    /\ (pc = "probe" /\ pc' = "probe") => disk' = disk /\ probe' = probe + 1
    /\ (pc = "probe" /\ pc' # "probe") =>
         \/ pc' = "renamed" /\ OneFileMoved /\ path' = Candidate(new_name, probe)
         \/ pc' = "except" /\ exc' = OSErrorRename /\ disk' = disk
    /\ pc \notin {"renamed", "except"}

\* C19: in a finite directory that nothing else writes to, safe_rename's
\* probe loop ends: i never passes the number of files plus one, the loop
\* is left after finitely many turns, and it is left by the one rename
\* call the function makes (which moves the file to the free candidate, or
\* is refused by the operating system), after which nothing is renamed.
C19_ProbeLoopTerminates ==
    /\ []C19_Bound
    /\ (pc = "probe" ~> pc \in {"renamed", "except"})
    /\ [][C19_Step]_vars

\* The loop ran past every suffix that was taken and renamed the file to
\* the first free one.
C19_Witness ==
    /\ pc = "renamed"
    /\ probe = MaxSuffix + 1
    /\ path = Candidate(new_name, probe)

\* The files of the directory, each by the name it had when the batch began.
FilesOnDisk == {disk[n].id : n \in DOMAIN disk}

C20_State ==
    files # <<>> =>
      /\ Cardinality(DOMAIN disk) = Len(files)
      /\ FilesOnDisk = {files[k] : k \in DOMAIN files}

C20_Step == DOMAIN disk' # DOMAIN disk => OneFileMoved

\* C20: with no other process writing to the directory, a batch neither
\* overwrites nor loses a file: every rename moves one file onto a name
\* that no file holds, the directory keeps its number of files, and every
\* input file is still there under a name of its own, also when several
\* files are identified as the same track.
C20_NoFileLost == []C20_State /\ [][C20_Step]_vars

\* Two files identified as the same track, both renamed, to two names.
C20_Witness ==
    /\ pc = "loop"
    /\ Len(results) = 2
    /\ hist[1].ti = hist[2].ti
    /\ results[1].renamed /\ results[2].renamed
    /\ results[1].dest_name # results[2].dest_name
    /\ {results[1].dest_name, results[2].dest_name} \subseteq DOMAIN disk

\* What the previous run recorded for the file that it left under name.
Previous(name) == first[CHOOSE j \in DOMAIN first : first[j].name = name]

\* The previous run was no preview and ended without an error for any file.
CleanFirstRun ==
    /\ first # <<>>
    /\ \A j \in DOMAIN first : first[j].error = None

\* This run has so far identified every file as the previous run did.
SameTracks ==
    \A k \in DOMAIN results : hist[k].ti = Previous(results[k].src_name).ti

\* C15: a second run on a directory that a first run (no preview) has
\* processed, with the same TrackInfo for every file, renames no file:
\* every file keeps the name the first run gave it, also a file that got a
\* " (i)" suffix because another file holds its target name.
C15_RerunRenamesNothing ==
    (CleanFirstRun /\ SameTracks) =>
      \A k \in DOMAIN results :
        /\ ~results[k].renamed
        /\ results[k].dest_name = results[k].src_name

=============================================================================
